---------------------------- MODULE Spec2Model ----------------------------
(***************************************************************************)
(* Model of docs/Readout-Analysis.ipynb (ReCirq readout tutorial):         *)
(*   - the record loading loop that derives z_vals from the bitstrings,    *)
(*   - get_obj_func / obj_func, the L1 objective with its 1000 penalty,    *)
(*   - the per-qubit fitting loop around scipy.optimize.minimize.          *)
(*                                                                         *)
(* Numbers.  Probabilities are integers in units of 0.01 (so the initial   *)
(* guess 0.01 is 1).  Expectation values and costs are integers in units   *)
(* of 1/Scale, Scale = 50*100*75, which makes the simulated <Z> of the     *)
(* noise model exact on the probability grid and at quarter-turn angles.   *)
(* Angles are integers in units of pi/2.  The fit runs in finer units,     *)
(* introduced with it.                                                     *)
(***************************************************************************)
EXTENDS Integers, Sequences, FiniteSets

VARIABLES
    records,          \* the list `records` built by the loading loop
    all_bitstrings,   \* the loop's variable all_bitstrings (last record's bits)
    thetas,           \* the global sweep angles, thetas = df.iloc[0]['thetas']
    z_vals,           \* per entry of dfb: the observed expectations entry['z_vals']
    guess,            \* the globals depol_prob, decay_prob, readout_prob
    all_results,      \* per closure of get_obj_func: its list all_results
    cur,              \* the entry whose closure is bound to ofunc (0: none yet)
    pc,               \* position of the running cell
    x,                \* argument of the latest obj_func call (<<>>: none)
    ret,              \* value the latest obj_func call returned
    nValid,           \* per closure: calls so far with all components >= 0
    sims,             \* sim.simulate calls made so far
    evals,            \* obj_func calls made so far
    nm,               \* the locals of the running minimize call (<<>>: none)
    opt_results,      \* the list opt_results: per fitted entry <<entry, opt_result.x>>
    fit,              \* per fitted entry: the curve plotted as 'Fit', results[-1]
    data_expectations \* the global data_expectations the loop sets (<<>>: not yet)

vars == <<records, all_bitstrings, thetas, z_vals, guess, all_results, cur, pc,
          x, ret, nValid, sims, evals, nm, opt_results, fit, data_expectations>>

loadVars == <<records, all_bitstrings>>
fitVars == <<thetas, z_vals, guess, all_results, cur, x, ret, nValid, sims, evals,
             nm, opt_results, fit, data_expectations>>

----------------------------------------------------------------------------
(* Bounds of the model.                                                    *)

MaxShots == 3      \* shots per parameter setting of a stored record
MaxSettings == 4   \* parameter settings in the record store, over all its records
MaxAngles == 2     \* sweep angles of a record
MaxCalls == 2      \* obj_func calls of one closure (direct calls)
NumQubits == 2     \* entries of dfb fitted by the loop
MaxIter == 5       \* iterations of the minimizer that are followed
MaxProb == 1       \* largest candidate probability, in units of 0.01
MaxSweep == 499    \* angles of the longest sweep evaluated

(* Units.                                                                  *)
Scale == 50 * 100 * 75

\* A penalty of 100 in place of 1000.
PenaltyLow == 10 * 10

(* return 1000 *)
Penalty == 1000

PenaltyCost == Penalty * Scale

(* Candidate probabilities the caller or the minimizer may try, in units   *)
(* of 0.01: one negative value, zero, the initial guess and beyond.        *)
Probs == -1..MaxProb
Points == {<<d, c, r>> : d \in Probs, c \in Probs, r \in Probs}

None == <<>>

(* Initial values: depol_prob = decay_prob = readout_prob = 0.01 *)
InitialGuess == <<1, 1, 1>>

----------------------------------------------------------------------------
(* Expectation extraction: np.mean((-1)**bitstrings, axis=0).item()        *)

Sign(b) == IF b % 2 = 0 THEN 1 ELSE -1

RECURSIVE SumSigns(_)
SumSigns(bits) ==
    IF bits = <<>> THEN 0 ELSE Sign(Head(bits)) + SumSigns(Tail(bits))

\* The mean of the bits themselves, the (-1)** left out.
MeanBits(bits) ==
    LET ones == Cardinality({j \in 1..Len(bits) : bits[j] = 1})
    IN  (Scale * ones) \div Len(bits)

\* The mean of the signs; Len(bits) divides Scale for every shot count up to 6.
ZVal(bits) == (Scale * SumSigns(bits)) \div Len(bits)

ZVals(bitstrings) == [k \in 1..Len(bitstrings) |-> ZVal(bitstrings[k])]

\* A sweep of n angles, evenly spaced from 0 in steps of pi/2.
Sweep(n) == [k \in 1..n |-> k - 1]

BitStrings(n) == UNION {[1..n -> [1..s -> {0, 1}]] : s \in 1..MaxShots}

\* Parameter settings of the records loaded so far.
RECURSIVE TotalSettings(_)
TotalSettings(recs) ==
    IF recs = <<>> THEN 0
    ELSE Len(Head(recs).z_vals) + TotalSettings(Tail(recs))

\* One iteration of "for record in recirq.iterload_records(...)": the store
\* yields a record of n parameter settings whose bits are b; the body
\* derives z_vals, drops all_bitstrings from the record and appends it.
LoadRecord(n, b) ==
    /\ pc = "load"
    /\ n <= MaxSettings - TotalSettings(records)
    /\ all_bitstrings' = b
    /\ records' = Append(records, [thetas |-> Sweep(n), z_vals |-> ZVals(b)])
    /\ UNCHANGED <<fitVars, pc>>

\* The iterator is exhausted, after any number of records:
\* df = pd.DataFrame(records).
BuildFrame ==
    /\ pc = "load"
    /\ pc' = "loaded"
    /\ UNCHANGED <<loadVars, fitVars>>

InitFitIdle ==
    /\ thetas = <<>>
    /\ z_vals = <<>>
    /\ guess = InitialGuess
    /\ all_results = <<>>
    /\ cur = 0
    /\ x = None
    /\ ret = 0
    /\ nValid = <<>>
    /\ sims = 0
    /\ evals = 0
    /\ nm = None
    /\ opt_results = <<>>
    /\ fit = <<>>
    /\ data_expectations = None

InitLoadIdle == records = <<>> /\ all_bitstrings = <<>>

InitLoad ==
    /\ pc = "load"
    /\ InitLoadIdle
    /\ InitFitIdle

NextLoad ==
    \/ \E n \in {m \in 1..MaxAngles : m <= MaxSettings - TotalSettings(records)} :
           \E b \in BitStrings(n) : LoadRecord(n, b)
    \/ BuildFrame

SpecLoad == InitLoad /\ [][NextLoad]_vars

----------------------------------------------------------------------------
(* get_obj_func(data_expectations) and its closure obj_func(x).            *)

\* The guard with the readout_prob test left out.
InvalidTwo(p) == p[1] < 0 \/ p[2] < 0

\* if depol_prob < 0 or decay_prob < 0 or readout_prob < 0
Invalid(p) == p[1] < 0 \/ p[2] < 0 \/ p[3] < 0

\* cos(theta) at theta = a * pi/2: <Z> after cirq.ry(theta) on |0>.
Cos(a) ==
    CASE a % 4 = 0 -> 1
      [] a % 4 = 1 -> 0
      [] a % 4 = 2 -> -1
      [] a % 4 = 3 -> 0

\* <Z> of the final density matrix of get_circuit(theta) under
\* DepolarizingWithDampedReadoutNoiseModel(depol_prob = p[1]/100,
\* decay_prob = p[2]/100, bitflip_prob = p[3]/100), in units of 1/Scale:
\*   ry(theta)                  z = cos(theta)
\*   depolarize after the gate  z -> (1 - 4*depol/3) * z    = (75 - p[1])/75 * z
\*   amplitude damping          z -> decay + (1 - decay)*z  = (p[2] + (100 - p[2])*z)/100
\*   bit flip before readout    z -> (1 - 2*bitflip) * z    = (50 - p[3])/50 * z
Sim(p, theta) ==
    (50 - p[3]) * (75 * p[2] + (100 - p[2]) * (75 - p[1]) * Cos(theta))

\* The loop run over the angles in reverse.
ResultsReversed(p, ths) ==
    [k \in 1..Len(ths) |-> Sim(p, ths[Len(ths) + 1 - k])]

\* The loop "for theta in thetas": one value per angle, in the order of thetas.
Results(p, ths) == [k \in 1..Len(ths) |-> Sim(p, ths[k])]

Abs(v) == IF v < 0 THEN -v ELSE v

\* np.sum(np.abs(results - data_expectations)) over positions lo..hi, the
\* k-th result against the k-th observation, summed pairwise by halves.
RECURSIVE SumAbsFrom(_, _, _, _)
SumAbsFrom(res, data, lo, hi) ==
    IF lo > hi THEN 0
    ELSE IF lo = hi THEN Abs(res[lo] - data[lo])
    ELSE LET mid == (lo + hi) \div 2
         IN  SumAbsFrom(res, data, lo, mid) + SumAbsFrom(res, data, mid + 1, hi)

\* np.sum(np.abs(results) - data_expectations): the parenthesis misplaced.
RECURSIVE SumMisplacedFrom(_, _, _)
SumMisplacedFrom(res, data, k) ==
    IF k > Len(res) THEN 0
    ELSE (Abs(res[k]) - data[k]) + SumMisplacedFrom(res, data, k + 1)

\* The k-th simulated value paired with the k-th observed value from the end.
RECURSIVE SumCrossedFrom(_, _, _)
SumCrossedFrom(res, data, k) ==
    IF k > Len(res) THEN 0
    ELSE Abs(res[k] - data[Len(res) + 1 - k]) + SumCrossedFrom(res, data, k + 1)

CostMisplaced(res, data) == SumMisplacedFrom(res, data, 1)

CostCrossed(res, data) == SumCrossedFrom(res, data, 1)

Cost(res, data) == SumAbsFrom(res, data, 1, Len(res))

\* The value obj_func(p) returns for sweep ths and observed data.
ObjValue(p, ths, data) ==
    IF Invalid(p) THEN PenaltyCost ELSE Cost(Results(p, ths), data)

\* One list shared by all closures (all_results outside get_obj_func).
HistAfterShared(hist, q, p, res) ==
    IF Invalid(p) THEN hist
    ELSE [e \in DOMAIN hist |-> Append(hist[e], res)]

\* The append placed before the penalty return.
HistAfterAlways(hist, q, p, res) ==
    [hist EXCEPT ![q] = Append(@, res)]

\* The histories after closure q evaluated p with simulated values res:
\* all_results.append(results) on q's own list, reached only past the
\* penalty return.
HistAfter(hist, q, p, res) ==
    IF Invalid(p) THEN hist
    ELSE [hist EXCEPT ![q] = Append(@, res)]

\* sim.simulate calls after an evaluation of p: one per angle, none on the
\* penalty path.
SimsAfter(n, p, ths) == IF Invalid(p) THEN n ELSE n + Len(ths)

NonNeg(p) == \A j \in 1..3 : p[j] >= 0

\* One call obj_func(p) of closure q, whole.
CallObjFunc(q, p) ==
    /\ x' = p
    /\ ret' = ObjValue(p, thetas, z_vals[q])
    /\ all_results' = HistAfter(all_results, q, p, Results(p, thetas))
    /\ sims' = SimsAfter(sims, p, thetas)
    /\ nValid' = [nValid EXCEPT ![q] = IF NonNeg(p) THEN @ + 1 ELSE @]
    /\ evals' = evals + 1

\* Observed data for a sweep: sample means of shots, the noiseless curve and
\* a synthetic noisy curve.
DataVals == {ZVal(<<0>>), ZVal(<<0, 1>>), ZVal(<<1, 1, 0>>)}

DataSets(ths) ==
    [1..Len(ths) -> DataVals]
        \cup {Results(<<0, 0, 0>>, ths), Results(<<1, 0, 1>>, ths)}

\* Direct calls of one closure: ofunc, results = get_obj_func(data), then
\* any sequence of ofunc(p).
Init ==
    /\ pc = "call"
    /\ InitLoadIdle
    /\ \E n \in 1..MaxAngles : thetas = Sweep(n)
    /\ \E d \in DataSets(thetas) : z_vals = <<d>>
    /\ guess = InitialGuess
    /\ all_results = << <<>> >>
    /\ cur = 1
    /\ x = None
    /\ ret = 0
    /\ nValid = <<0>>
    /\ sims = 0
    /\ evals = 0
    /\ nm = None
    /\ opt_results = <<>>
    /\ fit = <<>>
    /\ data_expectations = None

Call(p) ==
    /\ pc = "call"
    /\ evals < MaxCalls
    /\ CallObjFunc(1, p)
    /\ UNCHANGED <<loadVars, thetas, z_vals, guess, cur, pc, nm,
                   opt_results, fit, data_expectations>>

Next == \E p \in Points : Call(p)

Spec == Init /\ [][Next]_vars

----------------------------------------------------------------------------
(* Properties of obj_func, for the specification Spec.                     *)

Called == x # None

\* C1: whenever at least one of the three components of x is strictly
\* negative, obj_func(x) returns exactly 1000 (here 1000 * Scale), whatever
\* the other components and the observed data are, and it does so without
\* running the simulator: every simulate call so far belongs to a call with
\* all components non-negative, Len(thetas) of them per such call.
C1_NegativeReturnsPenalty ==
    /\ (Called /\ (x[1] < 0 \/ x[2] < 0 \/ x[3] < 0)) => ret = 1000 * Scale
    /\ sims = Len(thetas) * nValid[1]

C1_Witness ==
    /\ Called
    /\ x[1] >= 0 /\ x[2] >= 0 /\ x[3] < 0
    /\ ret = 1000 * Scale
    /\ nValid[1] = 1
    /\ evals = 2

\* C2: for every x whose three components are all non-negative and every
\* observed sequence, the value returned by obj_func(x) is >= 0.
C2_ValidCostNonNegative == (Called /\ NonNeg(x)) => ret >= 0

C2_Witness == Called /\ NonNeg(x) /\ ret > 0 /\ z_vals[1][1] = Scale

\* The simulated curve at p equals the observed data, position by position.
SimEqualsData(p) ==
    /\ Len(z_vals[1]) = Len(thetas)
    /\ \A k \in 1..Len(thetas) : Sim(p, thetas[k]) = z_vals[1][k]

\* C3: for a valid x, if the simulated expectation value at every sweep
\* angle equals the observed value at the same position, obj_func(x)
\* returns 0.
C3_IdenticalGivesZero == (Called /\ NonNeg(x) /\ SimEqualsData(x)) => ret = 0

C3_Witness ==
    /\ Called
    /\ x = <<1, 0, 1>>
    /\ Len(thetas) = 2
    /\ SimEqualsData(x)
    /\ ret = 0

\* The sum of |simulated - observed| over positions 1..n, written out from
\* Sim and the observed data of closure q.
RECURSIVE PairedSumOf(_, _, _)
PairedSumOf(q, p, n) ==
    IF n = 0 THEN 0
    ELSE PairedSumOf(q, p, n - 1) + Abs(Sim(p, thetas[n]) - z_vals[q][n])

PairedSum(p, n) == PairedSumOf(1, p, n)

LastResults == all_results[1][Len(all_results[1])]

\* C4: for a valid x, obj_func(x) simulates exactly one expectation value
\* per element of thetas, in the order of thetas, and returns the sum over
\* positions k of |simulated[k] - data_expectations[k]|.
C4_SumOfPairedAbsDifferences ==
    (Called /\ NonNeg(x)) =>
        /\ Len(all_results[1]) >= 1
        /\ Len(LastResults) = Len(thetas)
        /\ \A k \in 1..Len(thetas) : LastResults[k] = Sim(x, thetas[k])
        /\ ret = PairedSum(x, Len(thetas))
        /\ sims = Len(thetas) * nValid[1]

C4_Witness ==
    /\ Called
    /\ NonNeg(x)
    /\ Len(thetas) = 2
    /\ LastResults[1] # LastResults[2]
    /\ z_vals[1][1] # z_vals[1][2]
    /\ ret = Abs(LastResults[1] - z_vals[1][1]) + Abs(LastResults[2] - z_vals[1][2])
    /\ ret # Abs(LastResults[1] - z_vals[1][2]) + Abs(LastResults[2] - z_vals[1][1])

\* What one call obj_func(x') may do to the history of the closure.
C8_Step ==
    /\ Len(all_results'[1]) = nValid'[1]
    /\ IF NonNeg(x')
       THEN /\ Len(all_results'[1]) = Len(all_results[1]) + 1
            /\ SubSeq(all_results'[1], 1, Len(all_results[1])) = all_results[1]
            /\ Len(all_results'[1][Len(all_results'[1])]) = Len(thetas)
       ELSE /\ all_results' = all_results
            /\ ret' = 1000 * Scale

\* C8: the length of all_results equals the number of calls made with a
\* valid input: a call that returns the penalty leaves all_results
\* unchanged, a valid call appends exactly one entry of length Len(thetas)
\* at the end, and no call removes or rewrites an earlier entry.
C8_HistoryCountsValidCalls == [][C8_Step]_vars

C8_Witness ==
    /\ evals = 2
    /\ Called /\ ~NonNeg(x)
    /\ nValid[1] = 1
    /\ Len(all_results[1]) = 1

----------------------------------------------------------------------------
(* One evaluation of obj_func on a long sweep.  The angles advance in      *)
(* steps of pi, where the simulated <Z> is at its extremes; the observed   *)
(* data are the opposite extremes, a constant, or the noiseless curve.     *)
(* Sequences of calls are the subject of Spec.                             *)

HalfTurns(n) == [k \in 1..n |-> 2 * (k - 1)]

\* Sweep lengths tried: the short ones, every fiftieth, and the longest two.
SweepLengths ==
    {n \in 0..MaxSweep : n <= MaxAngles \/ n % 50 = 0 \/ n >= MaxSweep - 1}

LongData(ths) ==
    { [k \in 1..Len(ths) |-> -Scale * Cos(ths[k])],
      [k \in 1..Len(ths) |-> Scale],
      Results(<<0, 0, 0>>, ths) }

InitSweep ==
    /\ pc = "call"
    /\ InitLoadIdle
    /\ \E n \in SweepLengths : thetas = HalfTurns(n)
    /\ \E d \in LongData(thetas) : z_vals = <<d>>
    /\ guess = InitialGuess
    /\ all_results = << <<>> >>
    /\ cur = 1
    /\ x = None
    /\ ret = 0
    /\ nValid = <<0>>
    /\ sims = 0
    /\ evals = 0
    /\ nm = None
    /\ opt_results = <<>>
    /\ fit = <<>>
    /\ data_expectations = None

NextSweep == \E p \in Points : x = None /\ Call(p)

SpecSweep == InitSweep /\ [][NextSweep]_vars

\* C10: for observed and simulated values in [-1, 1], the cost returned at
\* a valid input is strictly less than the value returned at an invalid
\* input, for every sweep with fewer than 500 angles.
C10_ValidCostBelowPenalty ==
    (Called /\ NonNeg(x) /\ Len(thetas) < 500) =>
        /\ ret < ObjValue(<<-1, 0, 0>>, thetas, z_vals[1])
        /\ \A k \in 1..Len(thetas) :
               /\ -Scale <= z_vals[1][k] /\ z_vals[1][k] <= Scale
               /\ -Scale <= LastResults[k] /\ LastResults[k] <= Scale

C10_Witness ==
    /\ Called
    /\ NonNeg(x)
    /\ Len(thetas) = 499
    /\ Len(all_results[1]) = 1
    /\ sims = 499
    /\ ret = 998 * Scale

----------------------------------------------------------------------------
(* Exact arithmetic for the fit.  The minimizer's trial points are not on  *)
(* the 0.01 grid (its second evaluation is at 0.0105), so the fit is kept  *)
(* in finer units: a probability is an integer in units of 1/Unit, and an  *)
(* expectation value or a cost is an integer in units of 1/ScaleFine.      *)
(* Unit is fine enough to hold every point of MaxIter iterations exactly:  *)
(* 0.01 and 1.05 * 0.01 need 1/2000, and one iteration divides by 3 (the   *)
(* centroid) and by 2 (a contraction or a shrink).  The products exceed    *)
(* 32-bit integers, so they are held as signed sequences of Base-digits,   *)
(* least significant first.  The float values of the code are taken as     *)
(* the exact reals: rounding is not modelled.                              *)

Unit == 2000 * 6^MaxIter

Base == 100 * 100

RECURSIVE WNat(_)
WNat(n) == IF n = 0 THEN <<>> ELSE <<n % Base>> \o WNat(n \div Base)

RECURSIVE WTrim(_)
WTrim(a) ==
    IF a # <<>> /\ a[Len(a)] = 0 THEN WTrim(SubSeq(a, 1, Len(a) - 1)) ELSE a

RECURSIVE WAddC(_, _, _)
WAddC(a, b, c) ==
    IF a = <<>> /\ b = <<>> THEN (IF c = 0 THEN <<>> ELSE <<c>>)
    ELSE LET s == (IF a = <<>> THEN 0 ELSE Head(a))
                      + (IF b = <<>> THEN 0 ELSE Head(b)) + c
         IN  <<s % Base>> \o WAddC(IF a = <<>> THEN <<>> ELSE Tail(a),
                                   IF b = <<>> THEN <<>> ELSE Tail(b),
                                   s \div Base)

WAdd(a, b) == WAddC(a, b, 0)

\* a - b - c, for a >= b + c.
RECURSIVE WSubB(_, _, _)
WSubB(a, b, c) ==
    IF a = <<>> THEN <<>>
    ELSE LET d == Head(a) - (IF b = <<>> THEN 0 ELSE Head(b)) - c
         IN  <<IF d < 0 THEN d + Base ELSE d>>
                 \o WSubB(Tail(a), IF b = <<>> THEN <<>> ELSE Tail(b),
                          IF d < 0 THEN 1 ELSE 0)

WSub(a, b) == WTrim(WSubB(a, b, 0))

RECURSIVE WLessFrom(_, _, _)
WLessFrom(a, b, k) ==
    IF k = 0 THEN FALSE
    ELSE IF a[k] # b[k] THEN a[k] < b[k]
    ELSE WLessFrom(a, b, k - 1)

WLess(a, b) ==
    IF Len(a) # Len(b) THEN Len(a) < Len(b) ELSE WLessFrom(a, b, Len(a))

RECURSIVE WMulDigit(_, _, _)
WMulDigit(a, m, c) ==
    IF a = <<>> THEN (IF c = 0 THEN <<>> ELSE <<c>>)
    ELSE LET t == Head(a) * m + c
         IN  <<t % Base>> \o WMulDigit(Tail(a), m, t \div Base)

RECURSIVE WMulRaw(_, _)
WMulRaw(a, b) ==
    IF b = <<>> THEN <<>>
    ELSE WAdd(WMulDigit(a, Head(b), 0), <<0>> \o WMulRaw(a, Tail(b)))

WMul(a, b) == WTrim(WMulRaw(a, b))

\* A signed value <<negative, magnitude>>; zero is <<FALSE, <<>>>>.
ZInt(n) == <<n < 0, WNat(Abs(n))>>

ZNeg(a) == IF a[2] = <<>> THEN a ELSE <<~a[1], a[2]>>

ZAdd(a, b) ==
    IF a[1] = b[1] THEN <<a[1], WAdd(a[2], b[2])>>
    ELSE IF a[2] = b[2] THEN <<FALSE, <<>>>>
    ELSE IF WLess(a[2], b[2]) THEN <<b[1], WSub(b[2], a[2])>>
    ELSE <<a[1], WSub(a[2], b[2])>>

ZSub(a, b) == ZAdd(a, ZNeg(b))

ZMul(a, b) ==
    LET m == WMul(a[2], b[2])
    IN  IF m = <<>> THEN <<FALSE, <<>>>> ELSE <<a[1] # b[1], m>>

ZAbs(a) == <<FALSE, a[2]>>

ZLess(a, b) ==
    IF a[1] # b[1] THEN a[1]
    ELSE IF a[1] THEN WLess(b[2], a[2])
    ELSE WLess(a[2], b[2])

\* The value 1 of an expectation, in units of 1/ScaleFine.
ScaleFine == ZMul(ZMul(ZInt(Unit \div 2), ZInt(Unit)), ZInt((3 * Unit) \div 4))

\* return 1000, in cost units.
PenaltyFine == ZMul(ZInt(Penalty), ScaleFine)

\* Sim in the units of the fit: depol = p[1]/Unit, decay = p[2]/Unit,
\* bitflip = p[3]/Unit.
SimFine(p, theta) ==
    ZMul(ZInt(Unit \div 2 - p[3]),
         ZAdd(ZMul(ZInt((3 * Unit) \div 4), ZInt(p[2])),
              ZMul(ZMul(ZInt(Unit - p[2]), ZInt((3 * Unit) \div 4 - p[1])),
                   ZInt(Cos(theta)))))

ResultsFine(p, ths) == [k \in 1..Len(ths) |-> SimFine(p, ths[k])]

RECURSIVE SumAbsFine(_, _, _)
SumAbsFine(res, data, k) ==
    IF k = 0 THEN ZInt(0)
    ELSE ZAdd(SumAbsFine(res, data, k - 1), ZAbs(ZSub(res[k], data[k])))

CostFine(res, data) == SumAbsFine(res, data, Len(res))

ObjValueFine(p, ths, data) ==
    IF Invalid(p) THEN PenaltyFine ELSE CostFine(ResultsFine(p, ths), data)

\* One call obj_func(p) of closure q, whole, at a point of the minimizer.
CallObjFuncFine(q, p) ==
    /\ x' = p
    /\ ret' = ObjValueFine(p, thetas, z_vals[q])
    /\ all_results' = HistAfter(all_results, q, p, ResultsFine(p, thetas))
    /\ sims' = SimsAfter(sims, p, thetas)
    /\ nValid' = [nValid EXCEPT ![q] = IF NonNeg(p) THEN @ + 1 ELSE @]
    /\ evals' = evals + 1

\* The mean of (-1)**bit over n shots of which m read 1.
Obs(n, m) ==
    ZMul(ZInt(n - 2 * m),
         ZMul(ZMul(ZInt(Unit \div 2), ZInt(Unit \div n)), ZInt((3 * Unit) \div 4)))

----------------------------------------------------------------------------
(* scipy.optimize.minimize(ofunc, x0, method='nelder-mead') with default   *)
(* options: the simplex of x0 and x0 with one coordinate enlarged by 5%,   *)
(* reflection 1, expansion 2, contraction 1/2, shrink 1/2, termination     *)
(* when the vertices lie within xatol = 1e-4 of the best one and their     *)
(* costs within fatol = 1e-4 of its cost, or at 200 * N iterations or      *)
(* calls.  One action is one call of obj_func with the bookkeeping up to   *)
(* the next call.                                                          *)

NDim == Len(InitialGuess)

MaxFun == NDim * 200

\* x0 = [depol_prob, decay_prob, readout_prob], in units of 1/Unit.
Fine(g) == <<g[1] * (Unit \div 100), g[2] * (Unit \div 100), g[3] * (Unit \div 100)>>

\* y[k] = (1 + 0.05) * y[k] if y[k] != 0 else 0.00025
Stepped(y) == IF y # 0 THEN (21 * y) \div 20 ELSE Unit \div 4000

InitialSimplex(x0) ==
    << x0,
       <<Stepped(x0[1]), x0[2], x0[3]>>,
       <<x0[1], Stepped(x0[2]), x0[3]>>,
       <<x0[1], x0[2], Stepped(x0[3])>> >>

\* ind = np.argsort(fsim): equal costs keep their order (the sort of so few
\* values is an insertion sort).
Rank(fs, i) ==
    Cardinality({j \in DOMAIN fs :
                    ZLess(fs[j], fs[i]) \/ (fs[j] = fs[i] /\ j < i)})

ArgSort(fs) == [r \in DOMAIN fs |-> CHOOSE i \in DOMAIN fs : Rank(fs, i) = r - 1]

\* np.take(a, ind, 0)
Take(a, ind) == [r \in DOMAIN ind |-> a[ind[r]]]

\* a * u + b * v, over den
Combine(a, u, b, v, den) ==
    << (a * u[1] + b * v[1]) \div den,
       (a * u[2] + b * v[2]) \div den,
       (a * u[3] + b * v[3]) \div den >>

\* xbar = np.add.reduce(sim[:-1], 0) / N
Centroid(s) ==
    << (s[1][1] + s[2][1] + s[3][1]) \div NDim,
       (s[1][2] + s[2][2] + s[3][2]) \div NDim,
       (s[1][3] + s[2][3] + s[3][3]) \div NDim >>

\* max |sim[1:] - sim[0]| <= xatol and max |fsim[0] - fsim[1:]| <= fatol
Converged(m) ==
    /\ \A j \in 2..(NDim + 1) : \A i \in 1..NDim :
           Abs(m.sim[j][i] - m.sim[1][i]) <= Unit \div 10000
    /\ \A j \in 2..(NDim + 1) :
           ~ZLess(ScaleFine,
                  ZMul(ZInt(10000), ZAbs(ZSub(m.fsim[1], m.fsim[j]))))

\* while fcalls < maxfun and iterations < maxiter: if converged: break
Running(m) ==
    /\ m.fcalls < MaxFun
    /\ m.iterations < MaxFun
    /\ ~Converged(m)

\* The end of an iteration that puts point p of cost f in place of the
\* worst vertex: sort, iterations += 1.
Accepted(m, p, f) ==
    LET s == [m.sim EXCEPT ![NDim + 1] = p]
        g == [m.fsim EXCEPT ![NDim + 1] = f]
    IN  [m EXCEPT !.sim = Take(s, ArgSort(g)),
                  !.fsim = Take(g, ArgSort(g)),
                  !.iterations = @ + 1,
                  !.stage = "iter",
                  !.fcalls = @ + 1]

\* The entries of dfb.  They come in the order the record store yields
\* them, which the cell does not control: any order is followed.
Qubits == 1..NumQubits

Fitted == {opt_results[j][1] : j \in 1..Len(opt_results)}

Extend(f, q, v) == [e \in (DOMAIN f) \cup {q} |-> IF e = q THEN v ELSE f[e]]

fitFrame == <<loadVars, thetas, z_vals, guess, cur, pc, opt_results, fit,
              data_expectations>>

\* ofunc, results = get_obj_func(entry['z_vals']): a new closure with a new,
\* empty all_results; minimize is entered and builds its simplex from x0.
GetObjFunc(q) ==
    /\ pc = "loop"
    /\ q \notin Fitted
    /\ cur' = q
    /\ all_results' = Extend(all_results, q, <<>>)
    /\ nValid' = Extend(nValid, q, 0)
    /\ nm' = [sim |-> InitialSimplex(Fine(guess)), fsim |-> <<>>,
              stage |-> "init", xbar |-> None, xr |-> None, fxr |-> None,
              j |-> 2, iterations |-> 0, fcalls |-> 0]
    /\ pc' = "minimize"
    /\ UNCHANGED <<loadVars, thetas, z_vals, guess, x, ret, sims,
                   evals, opt_results, fit, data_expectations>>

\* for k in range(N + 1): fsim[k] = func(sim[k]); x0 comes first.  After
\* the last vertex the simplex is sorted and iterations = 1.
EvalInitial ==
    /\ pc = "minimize"
    /\ nm.stage = "init"
    /\ CallObjFuncFine(cur, nm.sim[Len(nm.fsim) + 1])
    /\ LET g == Append(nm.fsim, ret')
       IN  nm' = IF Len(g) <= NDim
                 THEN [nm EXCEPT !.fsim = g, !.fcalls = @ + 1]
                 ELSE [nm EXCEPT !.sim = Take(nm.sim, ArgSort(g)),
                                 !.fsim = Take(g, ArgSort(g)),
                                 !.iterations = 1,
                                 !.stage = "iter",
                                 !.fcalls = @ + 1]
    /\ UNCHANGED fitFrame

\* xr = (1 + rho) * xbar - rho * sim[-1]; fxr = func(xr).  Better than the
\* best vertex: an expansion follows; better than the second worst: xr is
\* accepted; otherwise a contraction follows, outside if xr is better than
\* the worst vertex and inside if not.
Reflect ==
    /\ pc = "minimize"
    /\ nm.stage = "iter"
    /\ Running(nm)
    /\ nm.iterations <= MaxIter
    /\ LET xbar == Centroid(nm.sim)
           xr == Combine(2, xbar, -1, nm.sim[NDim + 1], 1)
       IN  /\ CallObjFuncFine(cur, xr)
           /\ nm' = IF ZLess(ret', nm.fsim[1])
                    THEN [nm EXCEPT !.stage = "expand", !.xbar = xbar,
                                    !.xr = xr, !.fxr = ret', !.fcalls = @ + 1]
                    ELSE IF ZLess(ret', nm.fsim[NDim])
                    THEN Accepted([nm EXCEPT !.xbar = xbar, !.xr = xr,
                                             !.fxr = ret'], xr, ret')
                    ELSE IF ZLess(ret', nm.fsim[NDim + 1])
                    THEN [nm EXCEPT !.stage = "outside", !.xbar = xbar,
                                    !.xr = xr, !.fxr = ret', !.fcalls = @ + 1]
                    ELSE [nm EXCEPT !.stage = "inside", !.xbar = xbar,
                                    !.xr = xr, !.fxr = ret', !.fcalls = @ + 1]
    /\ UNCHANGED fitFrame

\* xe = (1 + rho * chi) * xbar - rho * chi * sim[-1]; fxe = func(xe); the
\* better of xe and xr replaces the worst vertex.
Expand ==
    /\ pc = "minimize"
    /\ nm.stage = "expand"
    /\ LET xe == Combine(3, nm.xbar, -2, nm.sim[NDim + 1], 1)
       IN  /\ CallObjFuncFine(cur, xe)
           /\ nm' = IF ZLess(ret', nm.fxr)
                    THEN Accepted(nm, xe, ret')
                    ELSE Accepted(nm, nm.xr, nm.fxr)
    /\ UNCHANGED fitFrame

\* xc = (1 + psi * rho) * xbar - psi * rho * sim[-1]; fxc = func(xc);
\* accepted if fxc <= fxr, else the simplex shrinks.
ContractOutside ==
    /\ pc = "minimize"
    /\ nm.stage = "outside"
    /\ LET xc == Combine(3, nm.xbar, -1, nm.sim[NDim + 1], 2)
       IN  /\ CallObjFuncFine(cur, xc)
           /\ nm' = IF ~ZLess(nm.fxr, ret')
                    THEN Accepted(nm, xc, ret')
                    ELSE [nm EXCEPT !.stage = "shrink", !.fcalls = @ + 1]
    /\ UNCHANGED fitFrame

\* xcc = (1 - psi) * xbar + psi * sim[-1]; fxcc = func(xcc); accepted if
\* fxcc < fsim[-1], else the simplex shrinks.
ContractInside ==
    /\ pc = "minimize"
    /\ nm.stage = "inside"
    /\ LET xcc == Combine(1, nm.xbar, 1, nm.sim[NDim + 1], 2)
       IN  /\ CallObjFuncFine(cur, xcc)
           /\ nm' = IF ZLess(ret', nm.fsim[NDim + 1])
                    THEN Accepted(nm, xcc, ret')
                    ELSE [nm EXCEPT !.stage = "shrink", !.fcalls = @ + 1]
    /\ UNCHANGED fitFrame

\* for j in one2np1: sim[j] = sim[0] + sigma * (sim[j] - sim[0]);
\* fsim[j] = func(sim[j]).  After the last vertex: sort, iterations += 1.
Shrink ==
    /\ pc = "minimize"
    /\ nm.stage = "shrink"
    /\ LET j == nm.j
           y == Combine(1, nm.sim[1], 1, nm.sim[j], 2)
       IN  /\ CallObjFuncFine(cur, y)
           /\ LET s == [nm.sim EXCEPT ![j] = y]
                  g == [nm.fsim EXCEPT ![j] = ret']
              IN  nm' = IF j <= NDim
                        THEN [nm EXCEPT !.sim = s, !.fsim = g, !.j = j + 1,
                                        !.fcalls = @ + 1]
                        ELSE [nm EXCEPT !.sim = Take(s, ArgSort(g)),
                                        !.fsim = Take(g, ArgSort(g)),
                                        !.iterations = @ + 1,
                                        !.stage = "iter",
                                        !.j = 2,
                                        !.fcalls = @ + 1]
    /\ UNCHANGED fitFrame

\* minimize returns opt_result with x = sim[0]; the cell appends it to
\* opt_results, sets the global data_expectations and plots results[-1] as
\* 'Fit'.
Finish ==
    /\ pc = "minimize"
    /\ nm.stage = "iter"
    /\ ~Running(nm)
    /\ opt_results' = Append(opt_results, <<cur, nm.sim[1]>>)
    /\ data_expectations' = z_vals[cur]
    /\ fit' = Extend(fit, cur, all_results[cur][Len(all_results[cur])])
    /\ pc' = IF Fitted \cup {cur} = Qubits THEN "done" ELSE "loop"
    /\ x' = None
    /\ ret' = 0
    /\ nm' = None
    /\ UNCHANGED <<loadVars, thetas, z_vals, guess, all_results,
                   cur, nValid, sims, evals>>

\* Sweeps of the fitted records: two angles a full turn apart, and two a
\* quarter turn apart.
FullTurns(n) == [k \in 1..n |-> 4 * (k - 1)]

FitSweeps == {FullTurns(2), Sweep(2)}

\* Observed data of an entry: shot means close to the curve at the initial
\* values (19 of 20 and 59 of 60 shots read 0), the noiseless values, and
\* an even split at the quarter turn.
FitData(ths) ==
    IF ths = FullTurns(2)
    THEN { <<Obs(20, 1), Obs(60, 1)>>,
           <<Obs(60, 1), Obs(60, 1)>>,
           <<Obs(1, 0), Obs(1, 0)>> }
    ELSE { <<Obs(1, 0), Obs(2, 1)>>,
           <<Obs(60, 1), Obs(2, 1)>> }

InitFit ==
    /\ pc = "loop"
    /\ InitLoadIdle
    /\ thetas \in FitSweeps
    /\ z_vals \in [Qubits -> FitData(thetas)]
    /\ guess = InitialGuess
    /\ all_results = <<>>
    /\ cur = 0
    /\ x = None
    /\ ret = 0
    /\ nValid = <<>>
    /\ sims = 0
    /\ evals = 0
    /\ nm = None
    /\ opt_results = <<>>
    /\ fit = <<>>
    /\ data_expectations = None

NextFit ==
    \/ \E q \in Qubits : GetObjFunc(q)
    \/ EvalInitial
    \/ Reflect
    \/ Expand
    \/ ContractOutside
    \/ ContractInside
    \/ Shrink
    \/ Finish

SpecFit == InitFit /\ [][NextFit]_vars

\* The cost at the initial values against the data of entry q, written out.
RECURSIVE PairedInitialOf(_, _)
PairedInitialOf(q, n) ==
    IF n = 0 THEN ZInt(0)
    ELSE ZAdd(PairedInitialOf(q, n - 1),
              ZAbs(ZSub(SimFine(<<Unit \div 100, Unit \div 100, Unit \div 100>>,
                                thetas[n]),
                        z_vals[q][n])))

PairedInitial(q) == PairedInitialOf(q, Len(thetas))

\* What one step of the fitting cell may change.
C6_Step ==
    /\ thetas' = thetas /\ z_vals' = z_vals /\ guess' = guess
    /\ \A q \in DOMAIN all_results :
           q # cur' => all_results'[q] = all_results[q]
    /\ cur' # cur =>
           /\ cur' \notin DOMAIN all_results
           /\ all_results'[cur'] = <<>>
    /\ (evals' # evals /\ all_results[cur] = <<>>) =>
           /\ x' = <<Unit \div 100, Unit \div 100, Unit \div 100>>
           /\ all_results'[cur'] = << [k \in 1..Len(thetas) |->
                                         SimFine(x', thetas[k])] >>
           /\ ret' = PairedInitial(cur')
           /\ nm'.sim[1] = x' /\ nm'.fsim = <<ret'>>

\* C6: optimization runs are independent and share no mutable state.  No
\* step changes the observed data, thetas or the initial guess; a step
\* changes no history but that of the closure in use; get_obj_func gives
\* its closure a history of its own that starts empty; and every run's
\* first evaluation is at (0.01, 0.01, 0.01) and leaves that run with the
\* same history and cost whatever earlier runs did and returned, so the
\* order of the per-qubit fits does not show in any of them.
C6_RunsAreIndependent == [][C6_Step]_vars

C6_Witness ==
    /\ pc = "minimize"
    /\ Len(opt_results) = 1
    /\ opt_results[1][2] # <<Unit \div 100, Unit \div 100, Unit \div 100>>
    /\ Len(all_results[opt_results[1][1]]) > 4
    /\ x = <<Unit \div 100, Unit \div 100, Unit \div 100>>
    /\ Len(all_results[cur]) = 1
    /\ z_vals[cur] # z_vals[opt_results[1][1]]

\* C9: when a fit finishes, the curve plotted as 'Fit', results[-1], is the
\* simulated expectation values at the parameters the minimizer returns,
\* opt_result.x.
C9_FitIsCurveAtOptimum ==
    \A j \in 1..Len(opt_results) :
        fit[opt_results[j][1]]
            = [k \in 1..Len(thetas) |-> SimFine(opt_results[j][2], thetas[k])]

----------------------------------------------------------------------------
(* Property of the loading loop, for the specification SpecLoad.           *)

Ones(bits) == Cardinality({j \in 1..Len(bits) : bits[j] = 1})

\* The record appended last and the bits it was derived from.
LastRecord == records[Len(records)]

\* C5: for every loaded record, z_vals holds exactly one scalar per
\* parameter setting, in the order of all_bitstrings, and the k-th scalar is
\* the mean of (-1)^bit over the shots of setting k: with N >= 1 shots of
\* which m are 1, N * z_vals[k] = N - 2*m (here times Scale), so the value
\* lies in [-1, 1], is +1 when all bits are 0 and -1 when all bits are 1.
\* Each record is related to its bits while they are at hand, that is
\* until the next record is unwrapped; its length and range are kept.
C5_ZValsAreShotMeans ==
    /\ \A j \in 1..Len(records) :
           /\ Len(records[j].z_vals) = Len(records[j].thetas)
           /\ \A k \in 1..Len(records[j].z_vals) :
                  /\ -Scale <= records[j].z_vals[k]
                  /\ records[j].z_vals[k] <= Scale
    /\ records # <<>> =>
           /\ Len(LastRecord.z_vals) = Len(all_bitstrings)
           /\ \A k \in 1..Len(all_bitstrings) :
                  LET N == Len(all_bitstrings[k])
                      m == Ones(all_bitstrings[k])
                  IN  N >= 1 =>
                          /\ N * LastRecord.z_vals[k] = Scale * (N - 2 * m)
                          /\ m = 0 => LastRecord.z_vals[k] = Scale
                          /\ m = N => LastRecord.z_vals[k] = -Scale

C5_Witness ==
    /\ Len(records) = 2
    /\ Len(records[1].z_vals) = 2
    /\ Len(records[2].z_vals) = 2
    /\ 3 * records[1].z_vals[1] = Scale
    /\ records[1].z_vals[2] = -Scale
    /\ all_bitstrings = << <<0, 0, 0>>, <<0, 1, 1>> >>
    /\ records[2].z_vals[1] = Scale
    /\ 3 * records[2].z_vals[2] = -Scale

=============================================================================
